---- MODULE Spec2Model ----
(***************************************************************************)
(* Model of ckpg_app.py: one top-to-bottom evaluation of the dashboard     *)
(* script over the table loaded from sei_summary_1.csv.  Every widget call *)
(* is an input drawn from a small set; every statement that assigns a      *)
(* table is a step of the pipeline.                                        *)
(***************************************************************************)
EXTENDS Integers, Sequences, FiniteSets

(***************************************************************************)
(* Strings the code slices or searches are sequences of characters, so     *)
(* that col[:2] is a real prefix operation.                                *)
(***************************************************************************)
Y19 == <<"1", "9">>
Y20 == <<"2", "0">>
Y21 == <<"2", "1">>
Y22 == <<"2", "2">>
Y23 == <<"2", "3">>

REV == <<"R", "E", "V">>
INV == <<"I", "N", "V">>
SRV == <<"S", "R", "V">>
SIV == <<"S", "I", "V">>
SRR == <<"S", "R", "R">>
SIR == <<"S", "I", "R">>

\* the year list of the comprehensions of lines 34-39
CatalogYears == <<Y19, Y20, Y21, Y22, Y23>>

\* f"{year}REV": the year followed by the metric code
Key(year, code) == year \o code

\* the values of the metric_columns dict, in insertion order
metric_columns ==
    << [y \in 1..5 |-> Key(CatalogYears[y], REV)],
       [y \in 1..5 |-> Key(CatalogYears[y], INV)],
       [y \in 1..5 |-> Key(CatalogYears[y], SRV)],
       [y \in 1..5 |-> Key(CatalogYears[y], SIV)],
       [y \in 1..5 |-> Key(CatalogYears[y], SRR)],
       [y \in 1..5 |-> Key(CatalogYears[y], SIR)] >>

\* col[:2]
Prefix2(col) == SubSeq(col, 1, 2)

ColCKPG == <<"C", "K", "P", "G">>
ColName == <<"N", "a", "m", "e">>
ColCountry == <<"C", "o", "u", "n", "t", "r", "y">>
categorical_columns == <<ColCKPG, ColName, ColCountry>>

C19REV == Key(Y19, REV)
C19SRR == Key(Y19, SRR)
C23REV == Key(Y23, REV)

\* the column the code falls back to (lines 94 and 98)
DefaultSortColumn == C19REV

\* placeholder for a column variable that has not been assigned yet
NoCol == <<>>

Range(s) == {s[i] : i \in DOMAIN s}

RECURSIVE Flatten(_)
\* sum(lists, []): the concatenation of a sequence of lists
Flatten(lists) ==
    IF lists = <<>> THEN <<>> ELSE Head(lists) \o Flatten(Tail(lists))

AllMetricColumns == Range(Flatten(metric_columns))

(***************************************************************************)
(* The table.  A missing cell is NaN; a missing CKPG is NaNGroup.          *)
(***************************************************************************)
NaN == -1
NaNGroup == "NaN"

IsNa(v) == v = NaN

\* a row of df_summary after the rename of line 30: the three categorical
\* cells and one numeric cell per catalog column
MkRow(g, n, c, v19rev, v19srr, v23rev) ==
    [CKPG |-> g, Name |-> n, Country |-> c,
     vals |-> [col \in AllMetricColumns |->
                 IF col = C19REV THEN v19rev
                 ELSE IF col = C19SRR THEN v19srr
                 ELSE IF col = C23REV THEN v23rev
                 ELSE NaN]]

\* bounds of the tables explored
MaxBulk == 4
MaxExclude == 1
TopXSpread == 0

\* the rows the explored tables are made of
BulkRow == MkRow("A", "n1", "c1", NaN, 1, 2)
TailRows ==
    << MkRow("A", "n1", "c1", NaN, NaN, 1),
       MkRow("A", "n2", "c2", 2, NaN, 3),
       MkRow("B", "n3", "c1", 1, 2, 4),
       MkRow(NaNGroup, "n2", "c2", 3, 3, 3) >>

Copies(row, k) == [i \in 1..k |-> row]

RECURSIVE Pick(_, _)
\* the subsequence of rows whose positions are in keep
Pick(rows, keep) ==
    IF rows = <<>> THEN <<>>
    ELSE (IF Len(rows) \in keep THEN Pick(SubSeq(rows, 1, Len(rows) - 1), keep) \o <<rows[Len(rows)]>>
          ELSE Pick(SubSeq(rows, 1, Len(rows) - 1), keep))

\* the tables read_csv may return here
RawTables ==
    { Copies(BulkRow, k) \o SubSeq(TailRows, 1, t) :
        k \in 0..MaxBulk, t \in 0..Len(TailRows) }

(***************************************************************************)
(* pandas operations used by the script                                    *)
(***************************************************************************)
\* df[mask]: the rows whose position is in keep, in their order
FilterRows(df, keep) == Pick(df, keep)

\* df["CKPG"].isin(selected)
GroupMaskWithNaN(df, selected) ==
    {i \in DOMAIN df : df[i].CKPG \in selected \/ df[i].CKPG = NaNGroup}
GroupMask(df, selected) == {i \in DOMAIN df : df[i].CKPG \in selected}

\* df[col].isna().sum()
NaCount(df, col) == Cardinality({i \in DOMAIN df : IsNa(df[i].vals[col])})
\* df[col].notna().sum()
NotNaCount(df, col) == Cardinality({i \in DOMAIN df : ~IsNa(df[i].vals[col])})

\* df.dropna(subset=[col])
DropNaKeepAll(df, col) == df
DropNa(df, col) == FilterRows(df, {i \in DOMAIN df : ~IsNa(df[i].vals[col])})

\* df[~df["Name"].isin(names)]
ExcludeNames(df, names) == FilterRows(df, {i \in DOMAIN df : df[i].Name \notin names})

\* df.head(k)
HeadOneLess(df, k) == SubSeq(df, 1, IF Len(df) < k - 1 THEN Len(df) ELSE k - 1)
HeadRows(df, k) == SubSeq(df, 1, IF Len(df) < k THEN Len(df) ELSE k)

\* sorted(df["CKPG"].dropna().unique()) as a set (isin ignores the order)
GroupOptions(df) == {df[i].CKPG : i \in DOMAIN df} \ {NaNGroup}

\* df["Name"].unique()
NameOptions(df) == {df[i].Name : i \in DOMAIN df}

Reverse(s) == [k \in 1..Len(s) |-> s[Len(s) + 1 - k]]

\* the positions of a boolean mask, in increasing order
Positions(n, mask) == Pick([i \in 1..n |-> i], mask)

\* numpy argsort of a list without NaN: the positions in increasing order of
\* value.  The default kind is quicksort, which fixes no order among equal
\* values: ties names the order the build gives them.
ArgSort(items, ties) ==
    LET Before(i, j) ==
            \/ items[i] < items[j]
            \/ items[i] = items[j] /\ (IF ties = "keep" THEN i < j ELSE i > j)
    IN [k \in 1..Len(items) |->
          CHOOSE i \in DOMAIN items :
              Cardinality({j \in DOMAIN items : Before(j, i)}) = k - 1]

\* pandas nargsort with na_position="last": the non-missing values are
\* sorted (reversed before and after when descending), the missing ones are
\* appended in their original order
NargSortNaNFollowsDirection(items, ascending, ties) ==
    LET non_nan_idx == Positions(Len(items), {i \in DOMAIN items : ~IsNa(items[i])})
        nan_idx == Positions(Len(items), {i \in DOMAIN items : IsNa(items[i])})
        idx == IF ascending THEN non_nan_idx ELSE Reverse(non_nan_idx)
        order == ArgSort([k \in DOMAIN idx |-> items[idx[k]]], ties)
        indexer == [k \in DOMAIN idx |-> idx[order[k]]]
    IN IF ascending THEN indexer \o nan_idx ELSE Reverse(indexer \o nan_idx)
NargSort(items, ascending, ties) ==
    LET non_nan_idx == Positions(Len(items), {i \in DOMAIN items : ~IsNa(items[i])})
        nan_idx == Positions(Len(items), {i \in DOMAIN items : IsNa(items[i])})
        idx == IF ascending THEN non_nan_idx ELSE Reverse(non_nan_idx)
        order == ArgSort([k \in DOMAIN idx |-> items[idx[k]]], ties)
        indexer == [k \in DOMAIN idx |-> idx[order[k]]]
    IN (IF ascending THEN indexer ELSE Reverse(indexer)) \o nan_idx

\* df.sort_values(by=col, ascending=..., na_position="last")
SortValues(df, col, ascending, ties) ==
    LET indexer == NargSort([i \in DOMAIN df |-> df[i].vals[col]], ascending, ties)
    IN [k \in DOMAIN df |-> df[indexer[k]]]

\* one row of the long table
MeltedRow(row, col) ==
    [CKPG |-> row.CKPG, Name |-> row.Name, Country |-> row.Country,
     Metric |-> col, Value |-> row.vals[col]]

\* df.melt(id_vars=["CKPG", "Name", "Country"], value_vars=..., var_name="Metric",
\* value_name="Value"): one block per value column, each block in row order
MeltFirstColumnOnly(df, value_vars) ==
    [k \in 1..(Len(df) * Len(value_vars)) |->
        MeltedRow(df[((k - 1) % Len(df)) + 1], value_vars[1])]
MeltRowMajor(df, value_vars) ==
    [k \in 1..(Len(df) * Len(value_vars)) |->
        MeltedRow(df[((k - 1) \div Len(value_vars)) + 1],
                  value_vars[((k - 1) % Len(value_vars)) + 1])]
Melt(df, value_vars) ==
    [k \in 1..(Len(df) * Len(value_vars)) |->
        MeltedRow(df[((k - 1) % Len(df)) + 1], value_vars[((k - 1) \div Len(df)) + 1])]

(***************************************************************************)
(* Derived values of the script                                            *)
(***************************************************************************)
\* lines 53-55
ValidYearsAlways23(universe) == <<Y19, Y20, Y21, Y22, Y23>>
ValidYears(universe) ==
    IF universe \in {"5-Year Universe", "Complete Universe"}
    THEN Append(<<Y19, Y20, Y21, Y22>>, Y23)
    ELSE <<Y19, Y20, Y21, Y22>>

\* lines 72-75: each catalog list restricted to the valid years, order kept
FilteredMetricColumns(years) ==
    LET InYears(col) == Prefix2(col) \in Range(years)
    IN [m \in DOMAIN metric_columns |-> SelectSeq(metric_columns[m], InYears)]

\* line 76
AvailableMetrics(years) == Flatten(FilteredMetricColumns(years))

\* line 82
AvailableTableColumns(metrics) == categorical_columns \o metrics

\* line 91
NumericSortable(columns) ==
    LET NotCategorical(col) == col \notin Range(categorical_columns)
    IN SelectSeq(columns, NotCategorical)

\* line 97: isna().sum() > len(df) * 0.8, in fifths
TooManyMissingAtLeast(df, col) == NaCount(df, col) * 5 >= Len(df) * 4
TooManyMissing(df, col) == NaCount(df, col) * 5 > Len(df) * 4

\* line 98: notna().sum() > len(df) * 0.5, in halves
IsCandidate(df, col) == NotNaCount(df, col) * 2 > Len(df)

\* line 98: next((col for col in candidates if ...), "19REV")
FallbackColumnLast(df, candidates) ==
    LET Ok(col) == IsCandidate(df, col)
        ok == SelectSeq(candidates, Ok)
    IN IF ok = <<>> THEN DefaultSortColumn ELSE ok[Len(ok)]
FallbackColumn(df, candidates) ==
    LET Ok(col) == IsCandidate(df, col)
        ok == SelectSeq(candidates, Ok)
    IN IF ok = <<>> THEN DefaultSortColumn ELSE Head(ok)

\* the texts of st.warning, by what they name
Warning(kind, requested, substituted) ==
    [kind |-> kind, requested |-> requested, substituted |-> substituted]
WarnNoCkpg == Warning("select_ckpg", NoCol, NoCol)
WarnNoYAxis == Warning("no_y_axis", NoCol, NoCol)
WarnFallback(requested, substituted) == Warning("too_many_missing", requested, substituted)

\* line 107: the slider range
MinTopX == 5
MaxTopX == 50

(***************************************************************************)
(* Inputs explored                                                         *)
(***************************************************************************)
Universes == {"4-Year Universe", "5-Year Universe", "Complete Universe"}

TopXValues == (MinTopX..(MinTopX + TopXSpread)) \cup {MaxTopX}

\* the multiselect answers explored for "Choose Columns to Display"
ColumnSelections ==
    { <<>>,
      <<ColCKPG, ColName, C19REV>>,
      <<C19SRR, C19REV>>,
      <<C19REV, C19SRR, C23REV>> }

\* the multiselect answers explored for "Y-Axis (Values to Compare)"
YAxisSelections ==
    { <<>>, <<C19SRR>>, <<C19REV, C19SRR>> }

TieOrders == {"keep", "flip"}

(***************************************************************************)
(* State                                                                   *)
(***************************************************************************)
VARIABLES
    df_summary,               \* the table of line 18, renamed by line 30
    argsort_ties,             \* the order the build's argsort gives equal values
    pc,                       \* the statement the script is at
    universe_toggle,
    valid_years,
    selected_ckpgs,
    df_filtered,
    available_metrics,
    selected_columns,
    numeric_sortable_columns,
    sort_column,
    warnings,                 \* the st.warning calls so far
    top_x,
    exclude_rows,
    df_table,
    rendered,                 \* what st.data_editor / st.plotly_chart have shown
    selected_y_axes,
    valid_y_axes,
    chart_sort_column,
    chart_sort_order,
    df_chart,
    df_melted

inputs == <<universe_toggle, valid_years, selected_ckpgs, available_metrics,
            selected_columns, numeric_sortable_columns, top_x, exclude_rows>>
chart == <<selected_y_axes, valid_y_axes, chart_sort_column, chart_sort_order,
           df_chart, df_melted>>
vars == <<df_summary, argsort_ties, pc, df_filtered, sort_column, warnings,
          df_table, rendered, inputs, chart>>

\* the variables of one run before any statement after line 40 has run
Fresh ==
    /\ pc = "universe"
    /\ universe_toggle = ""
    /\ valid_years = <<>>
    /\ selected_ckpgs = {}
    /\ df_filtered = <<>>
    /\ available_metrics = <<>>
    /\ selected_columns = <<>>
    /\ numeric_sortable_columns = <<>>
    /\ sort_column = NoCol
    /\ warnings = <<>>
    /\ top_x = 0
    /\ exclude_rows = {}
    /\ df_table = <<>>
    /\ rendered = {}
    /\ selected_y_axes = <<>>
    /\ valid_y_axes = <<>>
    /\ chart_sort_column = NoCol
    /\ chart_sort_order = ""
    /\ df_chart = <<>>
    /\ df_melted = <<>>

Init ==
    /\ df_summary \in RawTables
    /\ argsort_ties \in TieOrders
    /\ Fresh

(***************************************************************************)
(* The statements of the script, in order                                  *)
(***************************************************************************)
\* lines 49-55
SelectUniverse ==
    /\ pc = "universe"
    /\ \E u \in Universes :
          /\ universe_toggle' = u
          /\ valid_years' = ValidYears(u)
    /\ pc' = "ckpgs"
    /\ UNCHANGED <<df_summary, argsort_ties, selected_ckpgs, df_filtered,
                   available_metrics, selected_columns, numeric_sortable_columns,
                   sort_column, warnings, top_x, exclude_rows, df_table, rendered,
                   chart>>

\* lines 58-66 with nothing selected: the warning, then st.stop()
SelectNoCkpg ==
    /\ pc = "ckpgs"
    /\ selected_ckpgs' = {}
    /\ warnings' = Append(warnings, WarnNoCkpg)
    /\ pc' = "stopped"
    /\ UNCHANGED <<df_summary, argsort_ties, universe_toggle, valid_years,
                   df_filtered, available_metrics, selected_columns,
                   numeric_sortable_columns, sort_column, top_x, exclude_rows,
                   df_table, rendered, chart>>

\* lines 58-69 with a selection: the group filter
SelectCkpgs ==
    /\ pc = "ckpgs"
    /\ \E sel \in (SUBSET GroupOptions(df_summary)) \ {{}} :
          /\ selected_ckpgs' = sel
          /\ df_filtered' = FilterRows(df_summary, GroupMask(df_summary, sel))
    /\ pc' = "columns"
    /\ UNCHANGED <<df_summary, argsort_ties, universe_toggle, valid_years,
                   available_metrics, selected_columns, numeric_sortable_columns,
                   sort_column, warnings, top_x, exclude_rows, df_table, rendered,
                   chart>>

\* lines 72-94: the selectable columns, the columns chosen for the table and
\* the sort column asked for
SelectColumns ==
    /\ pc = "columns"
    /\ available_metrics' = AvailableMetrics(valid_years)
    /\ \E cols \in ColumnSelections :
          /\ Range(cols) \subseteq Range(AvailableTableColumns(available_metrics'))
          /\ selected_columns' = cols
          /\ numeric_sortable_columns' = NumericSortable(cols)
          /\ IF NumericSortable(cols) # <<>>
             THEN sort_column' \in Range(NumericSortable(cols))
             ELSE sort_column' = DefaultSortColumn
    /\ pc' = "fallback"
    /\ UNCHANGED <<df_summary, argsort_ties, universe_toggle, valid_years,
                   selected_ckpgs, df_filtered, warnings, top_x, exclude_rows,
                   df_table, rendered, chart>>

\* lines 97-100
Fallback ==
    /\ pc = "fallback"
    /\ IF TooManyMissing(df_filtered, sort_column)
       THEN LET fallback_column == FallbackColumn(df_filtered, numeric_sortable_columns)
            IN /\ warnings' = Append(warnings, WarnFallback(sort_column, fallback_column))
               /\ sort_column' = fallback_column
       ELSE UNCHANGED <<warnings, sort_column>>
    /\ pc' = "display"
    /\ UNCHANGED <<df_summary, argsort_ties, df_filtered, df_table, rendered,
                   inputs, chart>>

\* lines 107-108
DisplaySettings ==
    /\ pc = "display"
    /\ top_x' \in TopXValues
    /\ \E ex \in SUBSET NameOptions(df_filtered) :
          /\ Cardinality(ex) <= MaxExclude
          /\ exclude_rows' = ex
    /\ pc' = "dropna"
    /\ UNCHANGED <<df_summary, argsort_ties, universe_toggle, valid_years,
                   selected_ckpgs, df_filtered, available_metrics, selected_columns,
                   numeric_sortable_columns, sort_column, warnings, df_table,
                   rendered, chart>>

\* line 111
DropNaForSort ==
    /\ pc = "dropna"
    /\ df_filtered' = DropNa(df_filtered, sort_column)
    /\ pc' = "exclude"
    /\ UNCHANGED <<df_summary, argsort_ties, sort_column, warnings, df_table,
                   rendered, inputs, chart>>

\* line 112
ApplyExclusions ==
    /\ pc = "exclude"
    /\ df_filtered' = ExcludeNames(df_filtered, exclude_rows)
    /\ pc' = "rank"
    /\ UNCHANGED <<df_summary, argsort_ties, sort_column, warnings, df_table,
                   rendered, inputs, chart>>

\* lines 115-122: the ranked table, shown by st.data_editor
RankTable ==
    /\ pc = "rank"
    /\ df_table' = HeadRows(SortValues(df_filtered, sort_column, FALSE, argsort_ties), top_x)
    /\ rendered' = rendered \cup {"table"}
    /\ pc' = "chart"
    /\ UNCHANGED <<df_summary, argsort_ties, df_filtered, sort_column, warnings,
                   inputs, chart>>

\* line 132: the columns of the table that are selectable metrics (the
\* options of a multiselect; the table has every catalog column)
AvailableNumericColumns == available_metrics

\* line 142
ValidYAxes(selected) ==
    LET InTable(col) == col \in AllMetricColumns
    IN SelectSeq(selected, InTable)

\* lines 128-148 with no usable Y axis: the warning, then st.stop()
ChartNoYAxis ==
    /\ pc = "chart"
    /\ \E ys \in YAxisSelections :
          /\ Range(ys) \subseteq Range(AvailableNumericColumns)
          /\ ValidYAxes(ys) = <<>>
          /\ selected_y_axes' = ys
          /\ valid_y_axes' = ValidYAxes(ys)
    /\ warnings' = Append(warnings, WarnNoYAxis)
    /\ pc' = "stopped"
    /\ UNCHANGED <<df_summary, argsort_ties, df_filtered, sort_column, df_table,
                   rendered, inputs, chart_sort_column, chart_sort_order, df_chart,
                   df_melted>>

\* lines 128-148 with a Y axis
ChartSettings ==
    /\ pc = "chart"
    /\ \E ys \in YAxisSelections :
          /\ Range(ys) \subseteq Range(AvailableNumericColumns)
          /\ ValidYAxes(ys) # <<>>
          /\ selected_y_axes' = ys
          /\ valid_y_axes' = ValidYAxes(ys)
    /\ pc' = "chart_sort"
    /\ UNCHANGED <<df_summary, argsort_ties, df_filtered, sort_column, warnings,
                   df_table, rendered, inputs, chart_sort_column, chart_sort_order,
                   df_chart, df_melted>>

\* the table line 151 copies into df_chart
ChartSource == df_table

\* lines 150-158
SortChart ==
    /\ pc = "chart_sort"
    /\ \E col \in Range(selected_y_axes), order \in {"Descending", "Ascending"} :
          /\ chart_sort_column' = col
          /\ chart_sort_order' = order
          /\ df_chart' = SortValues(ChartSource, col, order = "Ascending", argsort_ties)
    /\ pc' = "melt"
    /\ UNCHANGED <<df_summary, argsort_ties, df_filtered, sort_column, warnings,
                   df_table, rendered, inputs, selected_y_axes, valid_y_axes,
                   df_melted>>

\* lines 160-168: the long table, drawn by st.plotly_chart
MeltAndPlot ==
    /\ pc = "melt"
    /\ df_melted' = Melt(df_chart, valid_y_axes)
    /\ rendered' = rendered \cup {"chart"}
    /\ pc' = "done"
    /\ UNCHANGED <<df_summary, argsort_ties, df_filtered, sort_column, warnings,
                   df_table, inputs, selected_y_axes, valid_y_axes,
                   chart_sort_column, chart_sort_order, df_chart>>

\* the next interaction: streamlit runs the script again from the top, over
\* the same table
Rerun ==
    /\ pc \in {"done", "stopped"}
    /\ pc' = "universe"
    /\ universe_toggle' = ""
    /\ valid_years' = <<>>
    /\ selected_ckpgs' = {}
    /\ df_filtered' = <<>>
    /\ available_metrics' = <<>>
    /\ selected_columns' = <<>>
    /\ numeric_sortable_columns' = <<>>
    /\ sort_column' = NoCol
    /\ warnings' = <<>>
    /\ top_x' = 0
    /\ exclude_rows' = {}
    /\ df_table' = <<>>
    /\ rendered' = {}
    /\ selected_y_axes' = <<>>
    /\ valid_y_axes' = <<>>
    /\ chart_sort_column' = NoCol
    /\ chart_sort_order' = ""
    /\ df_chart' = <<>>
    /\ df_melted' = <<>>
    /\ UNCHANGED <<df_summary, argsort_ties>>

Next ==
    \/ SelectUniverse
    \/ SelectNoCkpg
    \/ SelectCkpgs
    \/ SelectColumns
    \/ Fallback
    \/ DisplaySettings
    \/ DropNaForSort
    \/ ApplyExclusions
    \/ RankTable
    \/ ChartNoYAxis
    \/ ChartSettings
    \/ SortChart
    \/ MeltAndPlot
    \/ Rerun

Spec == Init /\ [][Next]_vars

(***************************************************************************)
(* Vocabulary of the properties, in terms of the loaded table              *)
(***************************************************************************)
\* the script has passed line 69 in this run
PastGroupFilter ==
    pc \in {"columns", "fallback", "display", "dropna", "exclude", "rank", "chart",
            "chart_sort", "melt"}
        \/ (pc \in {"done", "stopped"} /\ selected_ckpgs # {})

\* the script has passed line 100 in this run
PastFallback ==
    pc \in {"display", "dropna", "exclude", "rank", "chart", "chart_sort", "melt"}
        \/ (pc \in {"done", "stopped"} /\ selected_ckpgs # {})

\* the script has passed line 122 in this run
PastRank ==
    pc \in {"chart", "chart_sort", "melt"}
        \/ (pc \in {"done", "stopped"} /\ selected_ckpgs # {})

\* the rows of the loaded table in the selected groups
InGroups == {i \in DOMAIN df_summary : df_summary[i].CKPG \in selected_ckpgs}
\* ... that also have a value in column col
WithValue(col) == {i \in InGroups : df_summary[i].vals[col] # NaN}
\* ... and are not excluded by name
NotExcluded(col) == {i \in WithValue(col) : df_summary[i].Name \notin exclude_rows}

\* df holds exactly the loaded rows at the positions in keep, each as often
\* as it occurs there
HoldsExactly(df, keep) ==
    \A r \in Range(df) \cup Range(df_summary) :
        Cardinality({k \in DOMAIN df : df[k] = r})
            = Cardinality({i \in keep : df_summary[i] = r})

\* C1: after the group filter every row of the filtered table has its CKPG
\* in the (non-empty) selection and every loaded row whose CKPG is selected
\* is kept; with an empty selection the run stops with the warning that asks
\* for a CKPG and neither a table nor a chart is produced.
C1_GroupFilter ==
    /\ PastGroupFilter =>
          /\ selected_ckpgs # {}
          /\ \A k \in DOMAIN df_filtered : df_filtered[k].CKPG \in selected_ckpgs
    /\ pc = "columns" => HoldsExactly(df_filtered, InGroups)
    /\ (pc \notin {"universe", "ckpgs"} /\ selected_ckpgs = {}) =>
          /\ pc = "stopped"
          /\ warnings = <<WarnNoCkpg>>
          /\ rendered = {}
          /\ df_filtered = <<>> /\ df_table = <<>> /\ df_chart = <<>> /\ df_melted = <<>>

\* a selection that keeps some rows and drops others, one without a CKPG
C1_Witness ==
    /\ pc = "columns"
    /\ df_filtered # <<>>
    /\ \E i \in DOMAIN df_summary : df_summary[i].CKPG = NaNGroup
    /\ \E i \in DOMAIN df_summary : df_summary[i].CKPG \notin selected_ckpgs \cup {NaNGroup}

Min(a, b) == IF a < b THEN a ELSE b

\* C2: the ranked table has exactly min(K, n) rows, n being the number of
\* loaded rows that are in the selected groups, are not excluded by name and
\* have a value in the sort column.
C2_TopK ==
    PastRank =>
        /\ top_x \in MinTopX..MaxTopX
        /\ Len(df_table) = Min(top_x, Cardinality(NotExcluded(sort_column)))

\* more rows survive the filters than the slider allows
C2_Witness ==
    /\ pc = "chart"
    /\ Cardinality(NotExcluded(sort_column)) > top_x
    /\ Len(df_table) = top_x
    /\ exclude_rows # {}

\* df is ordered by col in the given direction with the missing values last
SortedNaNLast(df, col, ascending) ==
    \A i, j \in DOMAIN df :
        i < j =>
            /\ df[i].vals[col] = NaN => df[j].vals[col] = NaN
            /\ (df[i].vals[col] # NaN /\ df[j].vals[col] # NaN) =>
                  IF ascending THEN df[i].vals[col] <= df[j].vals[col]
                  ELSE df[i].vals[col] >= df[j].vals[col]

\* a and b hold the same rows, each as often
SameRows(a, b) ==
    \A r \in Range(a) \cup Range(b) :
        Cardinality({k \in DOMAIN a : a[k] = r}) = Cardinality({k \in DOMAIN b : b[k] = r})

\* no two rows of df have the same value in col
DistinctKeys(df, col) ==
    \A i, j \in DOMAIN df : df[i].vals[col] = df[j].vals[col] => i = j

FallbackWarnings == SelectSeq(warnings, LAMBDA w : w.kind = "too_many_missing")

\* the number of rows of df with no value / with a value in col
Missing(df, col) == Cardinality({k \in DOMAIN df : df[k].vals[col] = NaN})
Present(df, col) == Cardinality({k \in DOMAIN df : df[k].vals[col] # NaN})

\* col is the column the fallback policy names over df: the first of the
\* candidates, in their order, present in more than half of the rows, or
\* 19REV when there is none
IsSubstitute(df, candidates, col) ==
    \/ \E k \in DOMAIN candidates :
          /\ col = candidates[k]
          /\ 2 * Present(df, candidates[k]) > Len(df)
          /\ \A j \in 1..(k - 1) : 2 * Present(df, candidates[j]) <= Len(df)
    \/ /\ col = C19REV
       /\ \A j \in DOMAIN candidates : 2 * Present(df, candidates[j]) <= Len(df)

\* C4: when the fallback is decided over the working table, a requested sort
\* column missing in more than 0.8 of the rows is replaced by the first
\* selected numeric column present in more than 0.5 of the rows, or by
\* 19REV if there is none, and one advisory naming the requested and the
\* substituted column is issued; otherwise the requested column is kept and
\* no advisory is issued.
C4_Fallback ==
    [][pc = "fallback" =>
         /\ df_filtered # <<>>
         /\ IF 5 * Missing(df_filtered, sort_column) > 4 * Len(df_filtered)
            THEN /\ IsSubstitute(df_filtered, numeric_sortable_columns, sort_column')
                 /\ warnings' = Append(warnings,
                                       [kind |-> "too_many_missing",
                                        requested |-> sort_column,
                                        substituted |-> sort_column'])
            ELSE /\ sort_column' = sort_column
                 /\ warnings' = warnings]_vars

\* a substitution that passes over a candidate present in too few rows
C4_Witness ==
    /\ pc = "display"
    /\ Len(FallbackWarnings) = 1
    /\ FallbackWarnings[1].requested # sort_column
    /\ sort_column = FallbackWarnings[1].substituted
    /\ \E k \in DOMAIN numeric_sortable_columns :
          /\ numeric_sortable_columns[k] \notin {sort_column, FallbackWarnings[1].requested}
          /\ 2 * Present(df_filtered, numeric_sortable_columns[k]) <= Len(df_filtered)

\* C5 as stated: the exclusion filter runs before the null-drop filter, so
\* the null-drop filter sees no row whose name is excluded, the exclusion
\* filter sees the rows of the group filter, and ranking follows both.
C5_ExclusionBeforeNullDrop ==
    /\ pc = "dropna" => \A k \in DOMAIN df_filtered : df_filtered[k].Name \notin exclude_rows
    /\ pc = "exclude" => HoldsExactly(df_filtered, InGroups)
    /\ pc = "rank" => HoldsExactly(df_filtered, NotExcluded(sort_column))

\* C5 amended: the filters run in the order group filter, null-drop filter,
\* exclusion filter, each seeing exactly the rows that survived the earlier
\* ones, and the table is ranked and shown only after all three.
C5_NullDropBeforeExclusion ==
    /\ pc = "dropna" => HoldsExactly(df_filtered, InGroups)
    /\ pc = "exclude" => HoldsExactly(df_filtered, WithValue(sort_column))
    /\ pc = "rank" => HoldsExactly(df_filtered, NotExcluded(sort_column))
    /\ pc \in {"dropna", "exclude", "rank"} => (df_table = <<>> /\ rendered = {})
    /\ PastRank =>
          /\ HoldsExactly(df_filtered, NotExcluded(sort_column))
          /\ \A k \in DOMAIN df_table : \E j \in DOMAIN df_filtered : df_table[k] = df_filtered[j]

\* the exclusion filter about to run on a table the null-drop has shrunk
C5_Witness ==
    /\ pc = "exclude"
    /\ Len(df_filtered) < Cardinality(InGroups)
    /\ \E k \in DOMAIN df_filtered : df_filtered[k].Name \in exclude_rows

\* the years of a universe, as the specification lists them
YearsOf(universe) ==
    IF universe = "4-Year Universe" THEN {Y19, Y20, Y21, Y22}
    ELSE {Y19, Y20, Y21, Y22, Y23}

\* C6: the selectable metric columns are exactly the catalog keys whose
\* two-digit year prefix is a valid year of the universe, {19,20,21,22} for
\* 4-Year and {19,20,21,22,23} for 5-Year and Complete; the valid years grow
\* from 4-Year to 5-Year to Complete, and no 23 column is selectable in the
\* 4-Year universe.
C6_Universe ==
    /\ pc # "universe" => Range(valid_years) = YearsOf(universe_toggle)
    /\ PastFallback \/ pc = "fallback" =>
          /\ Range(available_metrics)
               = {col \in AllMetricColumns : <<col[1], col[2]>> \in YearsOf(universe_toggle)}
          /\ Len(available_metrics) = Cardinality(Range(available_metrics))
          /\ universe_toggle = "4-Year Universe" =>
                /\ \A k \in DOMAIN available_metrics :
                      <<available_metrics[k][1], available_metrics[k][2]>> # <<"2", "3">>
                /\ \A col \in Range(selected_columns) \cup Range(selected_y_axes)
                               \cup {sort_column, chart_sort_column} :
                      col = NoCol \/ <<col[1], col[2]>> # <<"2", "3">>
    /\ Range(ValidYears("4-Year Universe")) \subseteq Range(ValidYears("5-Year Universe"))
    /\ Range(ValidYears("5-Year Universe")) \subseteq Range(ValidYears("Complete Universe"))

\* the 4-Year universe with its 24 selectable columns
C6_Witness ==
    /\ pc = "fallback"
    /\ universe_toggle = "4-Year Universe"
    /\ Len(available_metrics) = 24
    /\ C23REV \notin Range(available_metrics)

\* C7: the melted table has r x c rows for the r rows of the sorted chart
\* table and the c selected value columns, one per (row, column) pair,
\* carrying the row's CKPG, Name and Country, the column key as Metric and
\* the row's value of the column as Value; the rows of each column follow
\* one another in the order the chart sort gave them.
C7_Melt ==
    pc = "done" =>
        LET r == Len(df_chart)
            c == Len(valid_y_axes)
        IN /\ c > 0
           /\ Cardinality(Range(valid_y_axes)) = c
           /\ Len(df_melted) = r * c
           /\ \A i \in 1..r, m \in 1..c :
                 df_melted[(m - 1) * r + i]
                    = [CKPG |-> df_chart[i].CKPG, Name |-> df_chart[i].Name,
                       Country |-> df_chart[i].Country, Metric |-> valid_y_axes[m],
                       Value |-> df_chart[i].vals[valid_y_axes[m]]]

\* two value columns melted over rows that differ
C7_Witness ==
    /\ pc = "done"
    /\ Len(valid_y_axes) = 2
    /\ Len(df_chart) >= 3
    /\ Len(df_melted) = 2 * Len(df_chart)
    /\ \E i, j \in DOMAIN df_chart : df_chart[i] # df_chart[j]

\* the identifier columns of a row
Ids(row) == <<row.CKPG, row.Name, row.Country>>

\* un-melting: the values the long table holds for one identifier triple and
\* one metric name, which is all a pivot on the metric name can take the
\* cell of that triple and column from
PivotCell(melted, ids, metric) ==
    {melted[k].Value : k \in {j \in DOMAIN melted :
                                Ids(melted[j]) = ids /\ melted[j].Metric = metric}}

\* the pivot gives row back its value of every melted column
Restored(melted, row, columns) ==
    \A col \in Range(columns) : PivotCell(melted, Ids(row), col) = {row.vals[col]}

\* C8 as stated: pivoting the melted table back gives every row of the
\* chart table its values of the melted columns, whatever the table.
C8_RoundTripAnyTable ==
    pc = "done" => \A i \in DOMAIN df_chart : Restored(df_melted, df_chart[i], valid_y_axes)

\* no two rows of df share CKPG, Name and Country
DistinctIds(df) == \A i, j \in DOMAIN df : Ids(df[i]) = Ids(df[j]) => i = j

\* C8 amended: pivoting the melted table back gives every row of the chart
\* table its values of the melted columns when no two rows of the table
\* share CKPG, Name and Country.
C8_RoundTripDistinctIds ==
    (pc = "done" /\ DistinctIds(df_chart)) =>
        \A i \in DOMAIN df_chart : Restored(df_melted, df_chart[i], valid_y_axes)

\* columns {19REV, 19SRR} melted over several rows with distinct identifiers
C8_Witness ==
    /\ pc = "done"
    /\ DistinctIds(df_chart)
    /\ Len(df_chart) >= 2
    /\ Len(valid_y_axes) = 2
    /\ \E i, j \in DOMAIN df_chart :
          df_chart[i].vals[valid_y_axes[1]] # df_chart[j].vals[valid_y_axes[1]]

\* C9: the table sorted and melted for the chart holds every row of the
\* full filtered dataset, not only the rows of the ranked table.
C9_ChartHoldsFilteredRows ==
    pc \in {"melt", "done"} => HoldsExactly(df_chart, NotExcluded(sort_column))

\* the advisory of this run, if one was issued
Advised == FallbackWarnings # <<>>

\* the advisory and the sort column are the ones the loaded rows of the
\* selected groups call for
DecisionOverGroupRows ==
    /\ Len(FallbackWarnings) <= 1
    /\ Advised =>
          /\ 5 * Cardinality(InGroups \ WithValue(FallbackWarnings[1].requested))
                > 4 * Cardinality(InGroups)
          /\ sort_column = FallbackWarnings[1].substituted
    /\ ~Advised =>
          5 * Cardinality(InGroups \ WithValue(sort_column)) <= 4 * Cardinality(InGroups)

\* C10: from the fallback decision on, whatever is excluded, the advisory
\* has been issued exactly when the requested column is missing in more than
\* 0.8 of the loaded rows of the selected groups (rows that the null-drop and
\* the exclusion remove count), the sort column is the one the advisory
\* names, else the requested one, and no later step changes the sort column
\* or the advisories: the substitute is never checked again.
C10_DecidedOnGroupRows ==
    [][/\ (PastFallback => DecisionOverGroupRows)'
       /\ pc \in {"display", "dropna", "exclude", "rank", "chart", "chart_sort", "melt"} =>
            /\ sort_column' = sort_column
            /\ FallbackWarnings' = FallbackWarnings]_vars

\* the default column substituted although no loaded row of the selected
\* groups has a value in it, and an empty ranked table shown
C10_Witness ==
    /\ pc = "chart"
    /\ Advised
    /\ sort_column = C19REV
    /\ FallbackWarnings[1].substituted = C19REV
    /\ 5 * Cardinality(InGroups \ WithValue(C19REV)) > 4 * Cardinality(InGroups)
    /\ exclude_rows # {}
    /\ df_table = <<>>
    /\ "table" \in rendered

====
